---- MODULE Spec2Model ----
(***************************************************************************)
(* Clause-consistency verification of qwed_legal: ClauseGuard's heuristic  *)
(* path (check_consistency) and ContradictionGuard's solver path           *)
(* (verify_consistency), as called on long-lived guard objects.            *)
(*                                                                         *)
(* A Python str is a sequence of one-character strings.  A clause text is  *)
(* written as the tuple of its words; Text(words) is the str itself: the   *)
(* words spelled out and joined by single spaces.  An Optional[int] is     *)
(* <<>> (None) or <<n>>.                                                   *)
(***************************************************************************)
EXTENDS Integers, Sequences, FiniteSets, TLC

(* ------------------------------ bounds -------------------------------- *)

\* longest clause list handed to check_consistency
MaxClauses == 3

\* longest clause list handed to verify_consistency
MaxContract == 2

MaxConstraints == 3

\* most words in a prompt handed to verify_decision_fairness
MaxPrompt == 2

\* largest Clause.value (values range over -1 .. MaxValue)
MaxValue == 2

(* ------------------------------ strings ------------------------------- *)

Spell ==
    ("Seller" :> <<"S","e","l","l","e","r">>)
 @@ ("Buyer" :> <<"B","u","y","e","r">>)
 @@ ("Neither" :> <<"N","e","i","t","h","e","r">>)
 @@ ("Licensee" :> <<"L","i","c","e","n","s","e","e">>)
 @@ ("Only" :> <<"O","n","l","y">>)
 @@ ("party" :> <<"p","a","r","t","y">>)
 @@ ("parties" :> <<"p","a","r","t","i","e","s">>)
 @@ ("may" :> <<"m","a","y">>)
 @@ ("not" :> <<"n","o","t">>)
 @@ ("terminate" :> <<"t","e","r","m","i","n","a","t","e">>)
 @@ ("with" :> <<"w","i","t","h">>)
 @@ ("without" :> <<"w","i","t","h","o","u","t">>)
 @@ ("days" :> <<"d","a","y","s">>)
 @@ ("notice" :> <<"n","o","t","i","c","e">>)
 @@ ("before" :> <<"b","e","f","o","r","e">>)
 @@ ("shall" :> <<"s","h","a","l","l">>)
 @@ ("pay" :> <<"p","a","y">>)
 @@ ("upon" :> <<"u","p","o","n">>)
 @@ ("receipt" :> <<"r","e","c","e","i","p","t">>)
 @@ ("at" :> <<"a","t">>)
 @@ ("any" :> <<"a","n","y">>)
 @@ ("time" :> <<"t","i","m","e">>)
 @@ ("cannot" :> <<"c","a","n","n","o","t">>)
 @@ ("neither" :> <<"n","e","i","t","h","e","r">>)
 @@ ("allowed" :> <<"a","l","l","o","w","e","d">>)
 @@ ("can" :> <<"c","a","n">>)
 @@ ("exclusive" :> <<"e","x","c","l","u","s","i","v","e">>)
 @@ ("only" :> <<"o","n","l","y">>)
 @@ ("termination" :> <<"t","e","r","m","i","n","a","t","i","o","n">>)
 @@ ("cancel" :> <<"c","a","n","c","e","l">>)
 @@ ("end" :> <<"e","n","d">>)
 @@ ("the" :> <<"t","h","e">>)
 @@ ("agreement" :> <<"a","g","r","e","e","m","e","n","t">>)
 @@ ("calendar" :> <<"c","a","l","e","n","d","a","r">>)
 @@ ("business" :> <<"b","u","s","i","n","e","s","s">>)
 @@ ("day" :> <<"d","a","y">>)
 @@ ("s" :> <<"s">>)
 @@ ("seller" :> <<"s","e","l","l","e","r">>)
 @@ ("buyer" :> <<"b","u","y","e","r">>)
 @@ ("vendor" :> <<"v","e","n","d","o","r">>)
 @@ ("customer" :> <<"c","u","s","t","o","m","e","r">>)
 @@ ("licensee" :> <<"l","i","c","e","n","s","e","e">>)
 @@ ("licensor" :> <<"l","i","c","e","n","s","o","r">>)
 @@ ("company" :> <<"c","o","m","p","a","n","y">>)
 @@ ("contractor" :> <<"c","o","n","t","r","a","c","t","o","r">>)
 @@ ("exactly" :> <<"e","x","a","c","t","l","y">>)
 @@ ("minimum" :> <<"m","i","n","i","m","u","m">>)
 @@ ("least" :> <<"l","e","a","s","t">>)
 @@ ("maximum" :> <<"m","a","x","i","m","u","m">>)
 @@ ("up" :> <<"u","p">>)
 @@ ("to" :> <<"t","o">>)
 @@ ("capped" :> <<"c","a","p","p","e","d">>)
 @@ ("max" :> <<"m","a","x">>)
 @@ ("penalty" :> <<"p","e","n","a","l","t","y">>)
 @@ ("fixed" :> <<"f","i","x","e","d">>)
 @@ ("Contract" :> <<"C","o","n","t","r","a","c","t">>)
 @@ ("duration" :> <<"d","u","r","a","t","i","o","n">>)
 @@ ("is" :> <<"i","s">>)
 @@ ("Minimum" :> <<"M","i","n","i","m","u","m">>)
 @@ ("term" :> <<"t","e","r","m">>)
 @@ ("Maximum" :> <<"M","a","x","i","m","u","m">>)
 @@ ("Liability" :> <<"L","i","a","b","i","l","i","t","y">>)
 @@ ("strictly" :> <<"s","t","r","i","c","t","l","y">>)
 @@ ("for" :> <<"f","o","r">>)
 @@ ("breach" :> <<"b","r","e","a","c","h">>)
 @@ ("Payment" :> <<"P","a","y","m","e","n","t">>)
 @@ ("due" :> <<"d","u","e">>)
 @@ ("on" :> <<"o","n">>)
 @@ ("0" :> <<"0">>)
 @@ ("10" :> <<"1","0">>)
 @@ ("20" :> <<"2","0">>)
 @@ ("30" :> <<"3","0">>)
 @@ ("90" :> <<"9","0">>)
 @@ ("he" :> <<"h","e">>)
 @@ ("He" :> <<"H","e">>)
 @@ ("HE" :> <<"H","E">>)
 @@ ("she" :> <<"s","h","e">>)
 @@ ("She" :> <<"S","h","e">>)
 @@ ("her" :> <<"h","e","r">>)
 @@ ("him" :> <<"h","i","m">>)
 @@ ("john" :> <<"j","o","h","n">>)
 @@ ("John" :> <<"J","o","h","n">>)
 @@ ("JOHN" :> <<"J","O","H","N">>)
 @@ ("Jane" :> <<"J","a","n","e">>)
 @@ ("APPROVED" :> <<"A","P","P","R","O","V","E","D">>)
 @@ ("Approved" :> <<"A","p","p","r","o","v","e","d">>)
 @@ ("DENIED" :> <<"D","E","N","I","E","D">>)
 @@ ("Delaware" :> <<"D","e","l","a","w","a","r","e">>)
 @@ ("London" :> <<"L","o","n","d","o","n">>)
 @@ ("US" :> <<"U","S">>)
 @@ ("us" :> <<"u","s">>)
 @@ ("UK" :> <<"U","K">>)
 @@ ("DE" :> <<"D","E">>)
 @@ ("NY" :> <<"N","Y">>)
 @@ ("FR" :> <<"F","R">>)

Sp == " "

RECURSIVE Text(_)
Text(words) ==
    IF Len(words) = 0 THEN <<>>
    ELSE IF Len(words) = 1 THEN Spell[words[1]]
    ELSE Spell[words[1]] \o <<Sp>> \o Text(Tail(words))

Upper == <<"A","B","C","D","E","F","G","H","I","J","K","L","M",
           "N","O","P","Q","R","S","T","U","V","W","X","Y","Z">>

Lower == <<"a","b","c","d","e","f","g","h","i","j","k","l","m",
           "n","o","p","q","r","s","t","u","v","w","x","y","z">>

\* str.lower()
lower(text) ==
    [k \in 1..Len(text) |->
        IF \E u \in 1..26 : Upper[u] = text[k]
        THEN Lower[CHOOSE u \in 1..26 : Upper[u] = text[k]]
        ELSE text[k]]

\* text[p:].startswith(w), p a 1-based position
StartsAt(text, p, w) ==
    /\ p + Len(w) - 1 <= Len(text)
    /\ \A k \in 1..Len(w) : text[p + k - 1] = w[k]

\* Python's `w in text` for strings
In(w, text) == \E p \in 1..(Len(text) + 1) : StartsAt(text, p, w)

Digit == <<"0","1","2","3","4","5","6","7","8","9">>

\* regex \d
IsDigit(c) == \E d \in 1..10 : Digit[d] = c

\* regex \s
IsSpace(c) == c \in {" ", "\t", "\n"}

\* int(str) on a string of decimal digits
RECURSIVE int(_)
int(digits) ==
    IF Len(digits) = 0 THEN 0
    ELSE 10 * int(SubSeq(digits, 1, Len(digits) - 1))
         + ((CHOOSE d \in 1..10 : Digit[d] = digits[Len(digits)]) - 1)

(* ------------------------------- regex -------------------------------- *)
(* A position p reads text[p] next; Len(text) + 1 is the end of the text. *)
(* Each operator maps the set of positions a match can have reached to    *)
(* the set it can reach after one more piece of the pattern.              *)

\* a literal
ReLit(text, P, w) == {p + Len(w) : p \in {q \in P : StartsAt(text, q, w)}}

\* \s*
ReSpaces(text, P) ==
    {q \in 1..(Len(text) + 1) :
        \E p \in P : p <= q /\ \A k \in p..(q - 1) : IsSpace(text[k])}

\* \s+
ReSpaces1(text, P) ==
    {q \in ReSpaces(text, P) : \E p \in P : p < q /\ \A k \in p..(q - 1) : IsSpace(text[k])}

\* \d+ : the ends of the digit runs that start at p
ReDigits(text, p) ==
    {q \in (p + 1)..(Len(text) + 1) : \A k \in p..(q - 1) : IsDigit(text[k])}

\* (?:w\s+)?
ReOptionalWord(text, P, w) == P \cup ReSpaces1(text, ReLit(text, P, w))

\* w?
ReOptional(text, P, w) == P \cup ReLit(text, P, w)

\* \s*(?:calendar\s+)?(?:business\s+)?days?
ReDaysUnit(text, P) ==
    ReOptional(text,
        ReLit(text,
            ReOptionalWord(text,
                ReOptionalWord(text, ReSpaces(text, P), Spell["calendar"]),
                Spell["business"]),
            Spell["day"]),
        Spell["s"])

Max(S) == CHOOSE x \in S : \A y \in S : y <= x

Min(S) == CHOOSE x \in S : \A y \in S : x <= y

(* re.search gives the leftmost match; within it \s* and \d+ are greedy.   *)

\* (\d+)\s*(?:calendar\s+)?(?:business\s+)?days?\s*{context} matched from
\* position p: the ends that group 1 can have
NumberBeforeEnds(text, context, p) ==
    {q \in ReDigits(text, p) :
        ReLit(text, ReSpaces(text, ReDaysUnit(text, {q})), context) # {}}

GroupBefore(text, context, starts) ==
    IF starts = {} THEN <<>>
    ELSE <<SubSeq(text, Min(starts),
                  Max(NumberBeforeEnds(text, context, Min(starts))) - 1)>>

\* re.search(rf'(\d+)\s*(?:calendar\s+)?(?:business\s+)?days?\s*{context}', text):
\* <<group(1)>>, or <<>> when there is no match
SearchNumberBefore(text, context) ==
    GroupBefore(text, context,
        {p \in 1..Len(text) : NumberBeforeEnds(text, context, p) # {}})

\* (\d+)\s*(?:calendar\s+)?(?:business\s+)?days? matched from position d:
\* the ends that group 1 can have
NumberEnds(text, d) == {q \in ReDigits(text, d) : ReDaysUnit(text, {q}) # {}}

\* {context}\s*(\d+)... matched from position p: where group 1 can start
NumberAfterStarts(text, context, p) ==
    {d \in ReSpaces(text, ReLit(text, {p}, context)) :
        d <= Len(text) /\ NumberEnds(text, d) # {}}

GroupFrom(text, d) == <<SubSeq(text, d, Max(NumberEnds(text, d)) - 1)>>

GroupAfter(text, context, starts) ==
    IF starts = {} THEN <<>>
    ELSE GroupFrom(text, Max(NumberAfterStarts(text, context, Min(starts))))

\* re.search(rf'{context}\s*(\d+)\s*(?:calendar\s+)?(?:business\s+)?days?', text)
SearchNumberAfter(text, context) ==
    GroupAfter(text, context,
        {p \in 1..Len(text) : NumberAfterStarts(text, context, p) # {}})


(* ---------------------------- clause texts ---------------------------- *)

NoticeDays == {0, 10, 30}

MinTermDays == {20, 90}

Grant(who, n) == <<who, "may", "terminate", "with", ToString(n), "days", "notice">>

MinimumTerm(m) ==
    <<"Neither", "party", "may", "terminate", "before", ToString(m), "days">>

GrantWithin(who, n, m) == Grant(who, n) \o <<"before", ToString(m), "days">>

ClauseTexts ==
    {Grant("Seller", n) : n \in NoticeDays}
    \cup {MinimumTerm(m) : m \in MinTermDays}
    \cup {GrantWithin("Seller", 10, 90), GrantWithin("Buyer", 30, 20),
          <<"Buyer", "may", "terminate", "at", "any", "time">>,
          <<"Buyer", "may", "not", "terminate">>,
          <<"Buyer", "shall", "pay", "upon", "receipt">>,
          <<"Only", "Buyer", "may", "terminate", "without", "notice">>,
          <<"Only", "Buyer", "may", "not", "terminate">>,
          <<>>}

\* texts for single pairs: a permission that reaches termination through "cancel",
\* prohibitions in each wording, exclusive grants to the same, to different and to
\* no parties, and a notice with a number on both sides of the anchor or after it
RuleTexts ==
    ClauseTexts
    \cup {<<"Buyer", "may", "cancel", "at", "any", "time">>,
          <<"Seller", "may", "not", "terminate">>,
          <<"Buyer", "shall", "not", "terminate">>,
          <<"Seller", "cannot", "terminate">>,
          <<"Only", "the", "parties", "shall", "pay", "upon", "receipt">>,
          <<"Only", "Seller", "shall", "pay", "upon", "receipt">>,
          <<"Only", "Buyer", "shall", "pay", "upon", "receipt">>,
          <<"Only", "pay", "upon", "receipt">>,
          Grant("Seller", 30) \o <<"10", "days">>,
          <<"Seller", "may", "terminate", "with", "notice", "10", "days">>}

ExactlyText == <<"Contract", "duration", "is", "exactly">>

AtLeastText == <<"Minimum", "term", "is", "at", "least">>

UpToText == <<"Maximum", "duration", "up", "to">>

CappedText == <<"Liability", "strictly", "capped">>

PenaltyText == <<"Minimum", "penalty", "for", "breach">>

PlainText == <<"Payment", "due", "on", "receipt">>

\* texts that hold the keywords of two branches of an if/elif chain
ExactlyMaximumText == <<"Maximum", "duration", "is", "exactly">>

AtLeastMaximumText == <<"Maximum", "term", "is", "at", "least">>

CappedPenaltyText == <<"Minimum", "penalty", "strictly", "capped">>

\* str.lower() of every text of the model, computed once
LowerTable ==
    [words \in RuleTexts \cup {ExactlyText, AtLeastText, UpToText, CappedText,
                               PenaltyText, PlainText, ExactlyMaximumText,
                               AtLeastMaximumText, CappedPenaltyText}
        |-> lower(Text(words))]

\* clause.lower()
Lowered(words) == LowerTable[words]

(* ----------------------------- ClauseGuard ---------------------------- *)

None == <<>>

\* Python truthiness of an Optional[int]: None and 0 are false
Truthy(opt) == opt # None /\ opt[1] # 0

\* any(t in text for t in terms)
AnyIn(terms, text) == \E t \in terms : In(t, text)

_has_termination(text) ==
    AnyIn({Spell["terminate"], Spell["termination"], Spell["cancel"],
           Text(<<"end", "the", "agreement">>)}, text)

\* fault: the number after the context word is preferred
FirstMatch_AfterFirst(before, after) ==
    IF after # <<>> THEN <<int(after[1])>>
    ELSE IF before # <<>> THEN <<int(before[1])>>
    ELSE None

\* the two `if match: return int(match.group(1))` and the final return None
FirstMatch(before, after) ==
    IF before # <<>> THEN <<int(before[1])>>
    ELSE IF after # <<>> THEN <<int(after[1])>>
    ELSE None

\* fault: a text without the context word yields 0 days, not None
_extract_days_ZeroDefault(text, context) ==
    IF ~In(context, text) THEN <<0>>
    ELSE FirstMatch(SearchNumberBefore(text, context), SearchNumberAfter(text, context))

_extract_days(text, context) ==
    IF ~In(context, text) THEN None
    ELSE FirstMatch(SearchNumberBefore(text, context), SearchNumberAfter(text, context))

PartyWords == {"seller", "buyer", "vendor", "customer", "licensee", "licensor",
               "party", "parties", "company", "contractor"}

_extract_parties(text) == {party \in PartyWords : In(Spell[party], text)}

\* the dict _extract_propositions builds for one clause; lo is clause.lower()
Proposition(clause, lo) ==
    [text                    |-> clause,
     can_terminate           |-> _has_termination(lo),
     termination_notice_days |-> _extract_days(lo, Spell["notice"]),
     min_term_days           |-> _extract_days(lo, Spell["before"]),
     is_exclusive            |-> In(Spell["exclusive"], lo) \/ In(Spell["only"], lo),
     is_prohibition          |-> AnyIn({Text(<<"may", "not">>), Spell["cannot"],
                                        Spell["neither"], Text(<<"shall", "not">>)}, lo),
     is_permission           |-> AnyIn({Spell["may"] \o <<Sp>>, Spell["can"] \o <<Sp>>,
                                        Spell["allowed"]}, lo),
     parties                 |-> _extract_parties(lo)]

\* the Proposition of every clause text of the model, computed once
PropositionTable == [clause \in RuleTexts |-> Proposition(clause, Lowered(clause))]

_extract_propositions(clauses) ==
    [k \in 1..Len(clauses) |-> PropositionTable[clauses[k]]]

TerminationReason(notice, min_term) ==
    "Termination notice (" \o ToString(notice) \o " days) conflicts with "
    \o "minimum term (" \o ToString(min_term) \o " days)"

\* a rule returns Optional[str]: <<>> or <<reason>>
_check_termination_conflict(prop1, prop2) ==
    IF /\ prop1.can_terminate /\ Truthy(prop2.min_term_days)
       /\ Truthy(prop1.termination_notice_days)
       /\ prop1.termination_notice_days[1] < prop2.min_term_days[1]
    THEN <<TerminationReason(prop1.termination_notice_days[1], prop2.min_term_days[1])>>
    ELSE IF /\ prop2.can_terminate /\ Truthy(prop1.min_term_days)
            /\ Truthy(prop2.termination_notice_days)
            /\ prop2.termination_notice_days[1] < prop1.min_term_days[1]
    THEN <<TerminationReason(prop2.termination_notice_days[1], prop1.min_term_days[1])>>
    ELSE None

PermissionReason == "Permission to terminate conflicts with prohibition on termination"

_check_permission_prohibition_conflict(prop1, prop2) ==
    IF /\ prop1.is_permission /\ prop2.is_prohibition
       /\ prop1.can_terminate /\ In(Spell["terminate"], Lowered(prop2.text))
    THEN <<PermissionReason>>
    ELSE IF /\ prop2.is_permission /\ prop1.is_prohibition
            /\ prop2.can_terminate /\ In(Spell["terminate"], Lowered(prop1.text))
    THEN <<PermissionReason>>
    ELSE None

ExclusivityReason == "Multiple exclusive rights granted to same party"

\* fault: two exclusive clauses collide whatever their parties
_check_exclusivity_conflict_AnyParties(prop1, prop2) ==
    IF prop1.is_exclusive /\ prop2.is_exclusive
    THEN <<ExclusivityReason>>
    ELSE None

_check_exclusivity_conflict(prop1, prop2) ==
    IF /\ prop1.is_exclusive /\ prop2.is_exclusive
       /\ prop1.parties \cap prop2.parties # {}
    THEN <<ExclusivityReason>>
    ELSE None

\* fault: no `continue` after an append, every rule that answers is recorded
FirstConflict_EveryRule(i, j, r1, r2, r3) ==
    (IF r1 # None THEN << <<i, j, r1[1]>> >> ELSE <<>>)
    \o (IF r2 # None THEN << <<i, j, r2[1]>> >> ELSE <<>>)
    \o (IF r3 # None THEN << <<i, j, r3[1]>> >> ELSE <<>>)

\* the first rule that answers appends (i, j, reason) and ends the pair
FirstConflict(i, j, r1, r2, r3) ==
    IF r1 # None THEN << <<i, j, r1[1]>> >>
    ELSE IF r2 # None THEN << <<i, j, r2[1]>> >>
    ELSE IF r3 # None THEN << <<i, j, r3[1]>> >>
    ELSE <<>>

\* fault: only j = i is skipped, a pair is also tried with the later clause first
PairConflicts_BothOrders(prop1, prop2, i, j) ==
    IF j = i THEN <<>>
    ELSE FirstConflict(i, j,
             _check_termination_conflict(prop1, prop2),
             _check_permission_prohibition_conflict(prop1, prop2),
             _check_exclusivity_conflict(prop1, prop2))

\* the body of the inner loop for the pair (i, j), 0-based: the conflicts it appends
PairConflicts(prop1, prop2, i, j) ==
    IF j <= i THEN <<>>
    ELSE FirstConflict(i, j,
             _check_termination_conflict(prop1, prop2),
             _check_permission_prohibition_conflict(prop1, prop2),
             _check_exclusivity_conflict(prop1, prop2))

RECURSIVE InnerLoop(_, _, _)
InnerLoop(propositions, i, j) ==
    IF j >= Len(propositions) THEN <<>>
    ELSE PairConflicts(propositions[i + 1], propositions[j + 1], i, j)
         \o InnerLoop(propositions, i, j + 1)

RECURSIVE OuterLoop(_, _)
OuterLoop(propositions, i) ==
    IF i >= Len(propositions) THEN <<>>
    ELSE InnerLoop(propositions, i, 0) \o OuterLoop(propositions, i + 1)

_find_conflicts(propositions) == OuterLoop(propositions, 0)

RECURSIVE JoinLines(_)
JoinLines(lines) ==
    IF Len(lines) = 0 THEN ""
    ELSE IF Len(lines) = 1 THEN lines[1]
    ELSE lines[1] \o "\n" \o JoinLines(Tail(lines))

\* fault: the line shows the recorded 0-based indices as they are
ConflictLine_ZeroBased(conflict) ==
    "  - Clause " \o ToString(conflict[1]) \o " vs Clause "
    \o ToString(conflict[2]) \o ": " \o conflict[3]

ConflictLine(conflict) ==
    "  - Clause " \o ToString(conflict[1] + 1) \o " vs Clause "
    \o ToString(conflict[2] + 1) \o ": " \o conflict[3]

ClauseResult(consistent, conflicts, message) ==
    [consistent |-> consistent, conflicts |-> conflicts, message |-> message]

\* the two returns that follow _find_conflicts.  A message is the code's less the
\* pictograph and the space that open it, which a TLA+ string cannot hold.
Report(conflicts) ==
    IF conflicts = <<>>
    THEN ClauseResult(TRUE, <<>>, "VERIFIED: All clauses are logically consistent.")
    ELSE ClauseResult(FALSE, conflicts,
             "WARNING: " \o ToString(Len(conflicts))
             \o " potential conflict(s) detected:\n"
             \o JoinLines([k \in 1..Len(conflicts) |-> ConflictLine(conflicts[k])]))

\* fault: the early return for a short list reports it as not consistent
check_consistency_ShortListFails(clauses) ==
    IF Len(clauses) < 2
    THEN ClauseResult(FALSE, <<>>, "Single clause - no conflicts possible.")
    ELSE Report(_find_conflicts(_extract_propositions(clauses)))

check_consistency(clauses) ==
    IF Len(clauses) < 2
    THEN ClauseResult(TRUE, <<>>, "Single clause - no conflicts possible.")
    ELSE Report(_find_conflicts(_extract_propositions(clauses)))

\* Bool(var_name) asserted: the solver must make the variable true
Asserted(var_name, truth) == [var |-> var_name, is |-> truth]

\* fault: every constraint shares the variable c0 and every second one is negated
BoolAssertions_SharedVariable(constraints) ==
    [k \in 1..Len(constraints) |-> Asserted("c0", k % 2 = 1)]

\* the loop of verify_using_z3: variable c<i> for constraint i, 0-based, added as true
BoolAssertions(constraints) ==
    [k \in 1..Len(constraints) |-> Asserted("c" \o ToString(k - 1), TRUE)]

\* Z3 decides propositional assertions: sat iff a truth assignment meets them all
Z3CheckBools(assertions) ==
    IF \E m \in [{assertions[k].var : k \in 1..Len(assertions)} -> BOOLEAN] :
           \A k \in 1..Len(assertions) : m[assertions[k].var] = assertions[k].is
    THEN "sat" ELSE "unsat"

\* the three returns of verify_using_z3
UsingZ3Result(checked) ==
    IF checked = "sat"
    THEN ClauseResult(TRUE, <<>>, "VERIFIED: Constraints are satisfiable.")
    ELSE IF checked = "unsat"
    THEN ClauseResult(FALSE, <<>>,
             "ERROR: Constraints are unsatisfiable (contradiction exists).")
    ELSE ClauseResult(TRUE, <<>>, "WARNING: Z3 could not determine satisfiability.")

verify_using_z3(constraints) == UsingZ3Result(Z3CheckBools(BoolAssertions(constraints)))

(* -------------------------- ContradictionGuard ------------------------ *)
(* A Clause is [id, text, category, value]; value is <<v>> for the int v  *)
(* and <<>> for None.  A solver is the sequence of its assertions, each   *)
(* [var, rel, lit] for `var rel lit`.                                     *)

Vars == {"contract_duration_months", "max_liability_usd", "notice_period_days"}

\* Solver(): a solver with no assertions
Solver == <<>>

Assertion(var, rel, lit) == [var |-> var, rel |-> rel, lit |-> lit]

\* fault: the duration is left free to be negative
PhysicalConstraints_DurationFree ==
    <<Assertion("max_liability_usd", ">=", 0),
      Assertion("notice_period_days", ">=", 0)>>

\* fault: the liability is left free to be negative
PhysicalConstraints_LiabilityFree ==
    <<Assertion("contract_duration_months", ">=", 0),
      Assertion("notice_period_days", ">=", 0)>>

\* the three s.add(... >= 0)
PhysicalConstraints ==
    <<Assertion("contract_duration_months", ">=", 0),
      Assertion("max_liability_usd", ">=", 0),
      Assertion("notice_period_days", ">=", 0)>>

\* fault: the last elif is an else, so a clause with no keyword caps the duration
DurationConstraint_ElseMaximum(c) ==
    LET lo == Lowered(c.text)
    IN  IF In(Spell["exactly"], lo)
        THEN <<Assertion("contract_duration_months", "==", c.value[1])>>
        ELSE IF In(Spell["minimum"], lo) \/ In(Text(<<"at", "least">>), lo)
        THEN <<Assertion("contract_duration_months", ">=", c.value[1])>>
        ELSE <<Assertion("contract_duration_months", "<=", c.value[1])>>

\* fault: the chain tests the maximum keywords first, then minimum, then exactly
DurationConstraint_MaximumFirst(c) ==
    LET lo == Lowered(c.text)
    IN  IF In(Spell["maximum"], lo) \/ In(Text(<<"up", "to">>), lo)
        THEN <<Assertion("contract_duration_months", "<=", c.value[1])>>
        ELSE IF In(Spell["minimum"], lo) \/ In(Text(<<"at", "least">>), lo)
        THEN <<Assertion("contract_duration_months", ">=", c.value[1])>>
        ELSE IF In(Spell["exactly"], lo)
        THEN <<Assertion("contract_duration_months", "==", c.value[1])>>
        ELSE <<>>

\* the if/elif chain of the loop over term_clauses: what one clause adds
DurationConstraint(c) ==
    LET lo == Lowered(c.text)
    IN  IF In(Spell["exactly"], lo)
        THEN <<Assertion("contract_duration_months", "==", c.value[1])>>
        ELSE IF In(Spell["minimum"], lo) \/ In(Text(<<"at", "least">>), lo)
        THEN <<Assertion("contract_duration_months", ">=", c.value[1])>>
        ELSE IF In(Spell["maximum"], lo) \/ In(Text(<<"up", "to">>), lo)
        THEN <<Assertion("contract_duration_months", "<=", c.value[1])>>
        ELSE <<>>

\* fault: a penalty is compiled as a cap
LiabilityConstraint_PenaltyAsCap(c) ==
    LET lo == Lowered(c.text)
    IN  IF In(Spell["capped"], lo) \/ In(Spell["max"], lo)
        THEN <<Assertion("max_liability_usd", "<=", c.value[1])>>
        ELSE IF In(Spell["penalty"], lo) \/ In(Spell["fixed"], lo)
        THEN <<Assertion("max_liability_usd", "<=", c.value[1])>>
        ELSE <<>>

\* the if/elif chain of the loop over liability_clauses
LiabilityConstraint(c) ==
    LET lo == Lowered(c.text)
    IN  IF In(Spell["capped"], lo) \/ In(Spell["max"], lo)
        THEN <<Assertion("max_liability_usd", "<=", c.value[1])>>
        ELSE IF In(Spell["penalty"], lo) \/ In(Spell["fixed"], lo)
        THEN <<Assertion("max_liability_usd", ">=", c.value[1])>>
        ELSE <<>>

RECURSIVE Concat(_)
\* the assertions added by a loop: one Optional assertion per clause, in order
Concat(seqs) ==
    IF Len(seqs) = 0 THEN <<>> ELSE Head(seqs) \o Concat(Tail(seqs))

\* fault: a clause of category OTHER is taken for a duration clause
Compile_OtherAsDuration(clauses) ==
    LET term_clauses      == SelectSeq(clauses, LAMBDA c :
                                 c.category \in {"DURATION", "OTHER"} /\ c.value # <<>>)
        liability_clauses == SelectSeq(clauses, LAMBDA c : c.category = "LIABILITY")
    IN  Solver \o PhysicalConstraints
        \o Concat([k \in 1..Len(term_clauses) |-> DurationConstraint(term_clauses[k])])
        \o Concat([k \in 1..Len(liability_clauses) |->
                      LiabilityConstraint(liability_clauses[k])])

\* the solver as it stands when s.check() is called
Compile(clauses) ==
    LET term_clauses      == SelectSeq(clauses, LAMBDA c : c.category = "DURATION")
        liability_clauses == SelectSeq(clauses, LAMBDA c : c.category = "LIABILITY")
    IN  Solver \o PhysicalConstraints
        \o Concat([k \in 1..Len(term_clauses) |-> DurationConstraint(term_clauses[k])])
        \o Concat([k \in 1..Len(liability_clauses) |->
                      LiabilityConstraint(liability_clauses[k])])

Holds(a, m) ==
    CASE a.rel = "==" -> m[a.var] = a.lit
      [] a.rel = ">=" -> m[a.var] >= a.lit
      [] a.rel = "<=" -> m[a.var] <= a.lit

\* Z3 decides bound constraints over the integers: a model exists iff one
\* exists with every variable between the least and the greatest literal
Z3Check(s) ==
    LET lits == {s[k].lit : k \in 1..Len(s)} \cup {0}
    IN  IF \E m \in [Vars -> Min(lits)..Max(lits)] :
              \A k \in 1..Len(s) : Holds(s[k], m)
        THEN "sat" ELSE "unsat"

\* the return statement chosen by `s.check() == sat`
Verdict(checked) ==
    IF checked = "sat"
    THEN [verified |-> TRUE, message |-> "Contract logic is consistent."]
    ELSE [verified |-> FALSE,
          message  |-> "LOGIC CONTRADICTION: Clauses are mutually exclusive. "
                       \o "(e.g. Penalty > Liability Cap, or Min Term > Max Duration). "
                       \o "Check Z3 trace."]

verify_consistency(clauses) == Verdict(Z3Check(Compile(clauses)))

(* ------------------------------- inputs ------------------------------- *)

\* the clause lists of n texts
ClauseLists(n) == [1..n -> ClauseTexts]

Values == {<<v>> : v \in (-1)..MaxValue}

\* a Clause less its id.  A None value is given only to clauses whose category
\* keeps the code from reading the value.
ClauseKinds ==
    [text : {ExactlyText, AtLeastText, UpToText}, category : {"DURATION"}, value : Values]
    \cup [text : {CappedText, PenaltyText}, category : {"LIABILITY"}, value : Values]
    \cup [text : {PlainText}, category : {"DURATION", "LIABILITY"}, value : {<<0>>, <<1>>}]
    \cup [text : {ExactlyMaximumText, AtLeastMaximumText}, category : {"DURATION"},
          value : {<<1>>}]
    \cup [text : {CappedPenaltyText}, category : {"LIABILITY"}, value : {<<1>>}]
    \cup [text : {ExactlyText}, category : {"OTHER"}, value : {<<1>>, None}]
    \cup {[text |-> ExactlyText, category |-> "TERMINATION", value |-> <<1>>],
          [text |-> ExactlyText, category |-> "None", value |-> None]}

Clause(id, kind) ==
    [id |-> id, text |-> kind.text, category |-> kind.category, value |-> kind.value]

\* the Clause list of the given kinds, with ids "1", "2", ...
Contract(kinds) == [k \in 1..Len(kinds) |-> Clause(ToString(k), kinds[k])]

\* the lists of n kinds
KindLists(n) == [1..n -> ClauseKinds]

\* constraint descriptions, two of them contradicting each other
ConstraintTexts == {"x > 5", "x < 3", "not (x > 5)"}

ConstraintLists(n) == [1..n -> ConstraintTexts]

(* ---------------------------- the two guards -------------------------- *)

VARIABLES
    op,        \* the call that has returned and whose report the caller holds, or "idle"
    clauses,   \* its argument
    result,    \* its report
    solver,    \* ClauseGuard.solver, made by __init__: the guard's only field
    s,         \* the local solver of verify_consistency when it was checked
    checked,   \* what s.check() gave
    probe,     \* history: the call whose reports are compared across the guard's life
    earlier,   \* history: <<report>> of the first time the probe call was made, else <<>>
    others,    \* history: another call has returned since then
    request,       \* the arguments of a FairnessGuard or JurisdictionGuard call
    llm_client,    \* FairnessGuard.llm_client: <<>> (None) or <<client>>
    call_history,  \* the prompts the client's generate has been given
    cf_decision,   \* <<what generate returned>> to verify_decision_fairness, else <<>>
    pc,            \* where main() of the action entrypoint stands, "none" if not run
    args,          \* its arguments, as parsed
    all_verified,  \* its local all_verified
    results,       \* its local results: check name to the entry stored
    messages,      \* its local messages
    uncaught,      \* <<name>> of the exception that ended it, else <<>>
    exit_code      \* the exit status of the process: <<>> while it runs

\* the state of the fairness and jurisdiction guards and of their callers
guardVars == <<request, llm_client, call_history, cf_decision>>

\* the state of a run of the action entrypoint
mainVars == <<pc, args, all_verified, results, messages, uncaught, exit_code>>

vars == <<op, clauses, result, solver, s, checked, probe, earlier, others,
          request, llm_client, call_history, cf_decision,
          pc, args, all_verified, results, messages, uncaught, exit_code>>

NoCall == [op |-> "none", clauses |-> <<>>]

NoResult == [none |-> TRUE]

\* FairnessGuard() with no client, JurisdictionGuard(); no call made yet
NoGuardCall ==
    request = <<>> /\ llm_client = <<>> /\ call_history = <<>> /\ cf_decision = <<>>

\* the action entrypoint is not running
NoMain ==
    /\ pc = "none" /\ args = <<>> /\ all_verified = TRUE
    /\ results = <<>> /\ messages = <<>> /\ uncaught = <<>> /\ exit_code = <<>>

\* ClauseGuard() and ContradictionGuard(), no call made yet
Init ==
    /\ op = "idle" /\ clauses = <<>> /\ result = NoResult
    /\ solver = Solver
    /\ s = <<>> /\ checked = "none"
    /\ probe = NoCall /\ earlier = <<>> /\ others = FALSE
    /\ NoGuardCall /\ NoMain

IsProbe(o, cl) == probe.op = o /\ probe.clauses = cl

Remember(o, cl, r) ==
    /\ probe' = probe
    /\ earlier' = IF earlier = <<>> /\ IsProbe(o, cl) THEN <<r>> ELSE earlier
    /\ others' = (others \/ (earlier # <<>> /\ ~IsProbe(o, cl)))

\* fault: the conflicts found are kept on the object and reported with the new ones
ClauseGuard_check_consistency_Accumulating(self_solver, cl) ==
    [solver |-> IF Len(cl) < 2 THEN self_solver
                ELSE self_solver \o check_consistency(cl).conflicts,
     report |-> IF Len(cl) < 2 THEN check_consistency(cl)
                ELSE Report(self_solver \o check_consistency(cl).conflicts)]

\* the method on the object: its report and what it leaves in self.solver
ClauseGuard_check_consistency(self_solver, cl) ==
    [solver |-> self_solver, report |-> check_consistency(cl)]

\* a ClauseGuard method has returned
Returned(o, cl, call) ==
    /\ op' = o /\ clauses' = cl
    /\ result' = call.report
    /\ solver' = call.solver
    /\ Remember(o, cl, call.report)

CheckConsistency ==
    /\ op = "idle"
    /\ \E n \in 0..MaxClauses : \E cl \in ClauseLists(n) :
         Returned("check_consistency", cl, ClauseGuard_check_consistency(solver, cl))
    /\ UNCHANGED <<s, checked, guardVars, mainVars>>

VerifyConsistency ==
    /\ op = "idle"
    /\ \E n \in 0..MaxContract : \E kinds \in KindLists(n) :
         /\ op' = "verify_consistency" /\ clauses' = Contract(kinds)
         /\ s' = Compile(clauses')
         /\ checked' = Z3Check(s')
         /\ result' = Verdict(checked')
         /\ Remember("verify_consistency", clauses', result')
    /\ UNCHANGED <<solver, guardVars, mainVars>>

\* the solver gives up on s.check(): z3's third answer
VerifyConsistencyUnknown ==
    /\ op = "idle"
    /\ \E n \in 0..MaxContract : \E kinds \in KindLists(n) :
         /\ op' = "verify_consistency" /\ clauses' = Contract(kinds)
         /\ s' = Compile(clauses')
         /\ checked' = "unknown"
         /\ result' = Verdict(checked')
         /\ Remember("verify_consistency", clauses', result')
    /\ UNCHANGED <<solver, guardVars, mainVars>>

\* what the caller gets when the call ends with an exception
Raised(exception) == [raised |-> exception]

\* s.check() raises (z3 runs out of memory or of its resource limit): no
\* statement of verify_consistency is inside a try, so the caller gets it
VerifyConsistencyRaises ==
    /\ op = "idle"
    /\ \E n \in 0..MaxContract : \E kinds \in KindLists(n) :
         /\ op' = "verify_consistency" /\ clauses' = Contract(kinds)
         /\ s' = Compile(clauses')
         /\ checked' = "Z3Exception"
         /\ result' = Raised(checked')
         /\ Remember("verify_consistency", clauses', result')
    /\ UNCHANGED <<solver, guardVars, mainVars>>

\* the caller is done with the report; the call's locals are gone, the guard stays
Return ==
    /\ op # "idle"
    /\ op' = "idle" /\ clauses' = <<>> /\ result' = NoResult
    /\ s' = <<>> /\ checked' = "none"
    /\ UNCHANGED <<solver, probe, earlier, others, guardVars, mainVars>>

\* check_consistency on a list of two clauses, over the wider set of texts
CheckPair ==
    /\ op = "idle"
    /\ \E cl \in [1..2 -> RuleTexts] :
         Returned("check_consistency", cl, ClauseGuard_check_consistency(solver, cl))
    /\ UNCHANGED <<s, checked, guardVars, mainVars>>

Next == CheckConsistency \/ VerifyConsistency \/ Return

Spec == Init /\ [][Next]_vars

\* the same guards run where the solver may give up (a resource limit, an interrupt)
NextLimited ==
    \/ CheckConsistency \/ VerifyConsistency
    \/ VerifyConsistencyUnknown \/ VerifyConsistencyRaises
    \/ Return

SpecLimited == Init /\ [][NextLimited]_vars

\* verify_using_z3: a local solver, one Bool per constraint, one check
VerifyUsingZ3 ==
    /\ op = "idle"
    /\ \E n \in 0..MaxConstraints : \E constraints \in ConstraintLists(n) :
         /\ op' = "verify_using_z3" /\ clauses' = constraints
         /\ s' = BoolAssertions(constraints)
         /\ checked' = Z3CheckBools(s')
         /\ result' = UsingZ3Result(checked')
    /\ UNCHANGED <<solver, probe, earlier, others, guardVars, mainVars>>

\* the guard asked about one pair of clauses, or one list of constraints, at a time
NextRules == CheckPair \/ VerifyUsingZ3 \/ Return

SpecRules == Init /\ [][NextRules]_vars

(* ----------------------------- FairnessGuard -------------------------- *)
(* protected_attribute_swap is the sequence of its <<key, value>> items   *)
(* in insertion order; keys are not empty.                                *)

IsUpper(c) == \E u \in 1..26 : Upper[u] = c

IsLower(c) == \E u \in 1..26 : Lower[u] = c

\* str.upper()
upper(text) ==
    [k \in 1..Len(text) |->
        IF IsLower(text[k]) THEN Upper[CHOOSE u \in 1..26 : Lower[u] = text[k]]
        ELSE text[k]]

\* str.capitalize()
capitalize(text) ==
    [k \in 1..Len(text) |-> IF k = 1 THEN upper(<<text[1]>>)[1] ELSE lower(<<text[k]>>)[1]]

\* str.isupper(): a cased character, and no lower-case one
isupper(text) ==
    /\ \E k \in 1..Len(text) : IsUpper(text[k])
    /\ \A k \in 1..Len(text) : ~IsLower(text[k])

\* str.istitle(): a cased character; upper case only after an uncased character,
\* lower case only after a cased one
istitle(text) ==
    /\ \E k \in 1..Len(text) : IsUpper(text[k]) \/ IsLower(text[k])
    /\ \A k \in 1..Len(text) :
         /\ IsUpper(text[k]) => (k = 1 \/ ~(IsUpper(text[k - 1]) \/ IsLower(text[k - 1])))
         /\ IsLower(text[k]) => (k > 1 /\ (IsUpper(text[k - 1]) \/ IsLower(text[k - 1])))

\* str.strip()
strip(text) ==
    IF \A k \in 1..Len(text) : IsSpace(text[k]) THEN <<>>
    ELSE SubSeq(text, Min({k \in 1..Len(text) : ~IsSpace(text[k])}),
                      Max({k \in 1..Len(text) : ~IsSpace(text[k])}))

\* regex \w
IsWord(c) == IsUpper(c) \/ IsLower(c) \/ IsDigit(c) \/ c = "_"

\* regex \b before position p
Boundary(text, p) ==
    (p > 1 /\ IsWord(text[p - 1])) # (p <= Len(text) /\ IsWord(text[p]))

\* \b(key)\b with re.IGNORECASE matches at position p
KeyMatches(text, p, key) ==
    /\ Boundary(text, p)
    /\ p + Len(key) - 1 <= Len(text)
    /\ lower(SubSeq(text, p, p + Len(key) - 1)) = lower(key)
    /\ Boundary(text, p + Len(key))

\* the alternatives of combined_pattern that match at p, by their place in it
Alternatives(text, p, swap) == {a \in 1..Len(swap) : KeyMatches(text, p, swap[a][1])}

\* lower_swap_dict[word]: of the keys with this lower(), the last one's value
lower_swap_dict(swap, word) ==
    swap[Max({a \in 1..Len(swap) : lower(swap[a][1]) = word})][2]

\* match_case, given match.group() and the replacement looked up for it
CaseOf(word, rep) ==
    IF isupper(word) THEN upper(rep)
    ELSE IF istitle(word) THEN capitalize(rep)
    ELSE rep

match_case(swap, word) == CaseOf(word, lower_swap_dict(swap, lower(word)))

\* re.sub from position p on: the first alternative that matches is replaced
\* and the scan goes on after it; else the character is copied
RECURSIVE Sub(_, _, _)
Sub(text, p, swap) ==
    IF p > Len(text) THEN <<>>
    ELSE IF Alternatives(text, p, swap) = {} THEN <<text[p]>> \o Sub(text, p + 1, swap)
    ELSE match_case(swap, SubSeq(text, p, p + Len(swap[Min(Alternatives(text, p, swap))][1]) - 1))
         \o Sub(text, p + Len(swap[Min(Alternatives(text, p, swap))][1]), swap)

\* lines 21-33.  With no key the pattern is \b()\b: it matches the empty string
\* at a word boundary, and match_case raises KeyError('') for it.
Counterfactual(text, swap) ==
    IF swap = <<>>
    THEN IF \E p \in 1..(Len(text) + 1) : Boundary(text, p)
         THEN Raised("KeyError") ELSE [prompt |-> text]
    ELSE [prompt |-> Sub(text, 1, swap)]

\* fault: the decisions are compared as they were given
Decide_Exact(original_decision, counterfactual) ==
    IF original_decision = counterfactual
    THEN [verified |-> TRUE, status |-> "FAIRNESS_VERIFIED"]
    ELSE [verified |-> FALSE,
          risk     |-> "JUDICIAL_BIAS_DETECTED",
          message  |-> "The agent's decision changed when protected attributes were "
                       \o "altered. This violates fairness constraints.",
          variance |-> [original |-> original_decision, counterfactual |-> counterfactual]]

\* lines 39-49
Decide(original_decision, counterfactual) ==
    IF lower(strip(original_decision)) = lower(strip(counterfactual))
    THEN [verified |-> TRUE, status |-> "FAIRNESS_VERIFIED"]
    ELSE [verified |-> FALSE,
          risk     |-> "JUDICIAL_BIAS_DETECTED",
          message  |-> "The agent's decision changed when protected attributes were "
                       \o "altered. This violates fairness constraints.",
          variance |-> [original |-> original_decision, counterfactual |-> counterfactual]]

\* line 39 on what generate returned: None has no strip()
Compare(original_decision, response) ==
    IF response = None THEN Raised("AttributeError")
    ELSE Decide(original_decision, response[1])

PromptWords == {"he", "HE", "she", "the", "john", "John"}

Prompts(n) == {Text(words) : words \in [1..n -> PromptWords]}

Swaps ==
    {<<>>,
     << <<Spell["he"], Spell["she"]>> >>,
     << <<Spell["he"], Spell["she"]>>, <<Spell["she"], Spell["he"]>> >>,
     << <<Spell["John"], Spell["Jane"]>> >>,
     << <<Spell["John"], Spell["Jane"]>>, <<Spell["he"], Spell["she"]>> >>}

Decisions == {Spell["APPROVED"], <<Sp>> \o Spell["Approved"], Spell["DENIED"]}

\* what generate can return: None, or a str
Responses ==
    {None, <<Spell["APPROVED"]>>, <<Spell["Approved"] \o <<"\n">> >>, <<Spell["DENIED"]>>}

\* lines 36-49 for the prompt built
Generate(original_decision, counterfactual_prompt) ==
    \E response \in Responses :
        /\ call_history' = Append(call_history, counterfactual_prompt)
        /\ cf_decision' = <<response>>
        /\ result' = Compare(original_decision, response)

\* fault: the prompt is built before the client is looked at
Respond_PromptFirst(client, built, original_decision) ==
    IF "raised" \in DOMAIN built
    THEN result' = built /\ UNCHANGED <<call_history, cf_decision>>
    ELSE IF client = None
    THEN result' = Raised("ValueError") /\ UNCHANGED <<call_history, cf_decision>>
    ELSE Generate(original_decision, built.prompt)

\* lines 17-49, given what lines 21-33 make of the prompt
Respond(client, built, original_decision) ==
    IF client = None
    THEN result' = Raised("ValueError") /\ UNCHANGED <<call_history, cf_decision>>
    ELSE IF "raised" \in DOMAIN built
    THEN result' = built /\ UNCHANGED <<call_history, cf_decision>>
    ELSE Generate(original_decision, built.prompt)

VerifyDecisionFairness ==
    /\ op = "idle"
    /\ \E n \in 0..MaxPrompt : \E original_prompt \in Prompts(n) :
       \E original_decision \in Decisions : \E protected_attribute_swap \in Swaps :
         /\ request' = [original_prompt          |-> original_prompt,
                        original_decision        |-> original_decision,
                        protected_attribute_swap |-> protected_attribute_swap]
         /\ Respond(llm_client, Counterfactual(original_prompt, protected_attribute_swap),
                    original_decision)
    /\ op' = "verify_decision_fairness"
    /\ UNCHANGED <<clauses, solver, s, checked, probe, earlier, others, llm_client, mainVars>>

\* FairnessGuard(llm_client=...) with a client that has not been called, or None
NewFairnessGuard ==
    /\ op \in {"idle", "verify_decision_fairness"}
    /\ llm_client' \in {None, <<"client">>}
    /\ call_history' = <<>> /\ cf_decision' = <<>>
    /\ op' = "idle" /\ request' = <<>> /\ result' = NoResult
    /\ UNCHANGED <<clauses, solver, s, checked, probe, earlier, others, mainVars>>

(* --------------------------- JurisdictionGuard ------------------------ *)

COMMON_LAW_JURISDICTIONS ==
    {<<"U","S">>, <<"U","K">>, <<"G","B">>, <<"C","A">>, <<"A","U">>, <<"N","Z">>,
     <<"I","E">>, <<"S","G">>, <<"H","K">>, <<"I","N">>}

CIVIL_LAW_JURISDICTIONS ==
    {<<"D","E">>, <<"F","R">>, <<"I","T">>, <<"E","S">>, <<"N","L">>, <<"B","E">>,
     <<"A","T">>, <<"C","H">>, <<"J","P">>, <<"K","R">>, <<"B","R">>, <<"M","X">>}

US_STATES ==
    {<<"A","L">>, <<"A","K">>, <<"A","Z">>, <<"A","R">>, <<"C","A">>, <<"C","O">>,
     <<"C","T">>, <<"D","E">>, <<"F","L">>, <<"G","A">>, <<"H","I">>, <<"I","D">>,
     <<"I","L">>, <<"I","N">>, <<"I","A">>, <<"K","S">>, <<"K","Y">>, <<"L","A">>,
     <<"M","E">>, <<"M","D">>, <<"M","A">>, <<"M","I">>, <<"M","N">>, <<"M","S">>,
     <<"M","O">>, <<"M","T">>, <<"N","E">>, <<"N","V">>, <<"N","H">>, <<"N","J">>,
     <<"N","M">>, <<"N","Y">>, <<"N","C">>, <<"N","D">>, <<"O","H">>, <<"O","K">>,
     <<"O","R">>, <<"P","A">>, <<"R","I">>, <<"S","C">>, <<"S","D">>, <<"T","N">>,
     <<"T","X">>, <<"U","T">>, <<"V","T">>, <<"V","A">>, <<"W","A">>, <<"W","V">>,
     <<"W","I">>, <<"W","Y">>, <<"D","C">>}

_is_valid_jurisdiction(jurisdiction) ==
    \/ jurisdiction \in COMMON_LAW_JURISDICTIONS
    \/ jurisdiction \in CIVIL_LAW_JURISDICTIONS
    \/ jurisdiction \in US_STATES
    \/ jurisdiction \in {<<"E","U">>, <<"U","K">>, <<"E","N","G","L","A","N","D">>,
                         <<"S","C","O","T","L","A","N","D">>, <<"W","A","L","E","S">>}

_is_us_state(jurisdiction) == jurisdiction \in US_STATES

_is_us_jurisdiction(jurisdiction) == jurisdiction \in US_STATES \/ jurisdiction = Spell["US"]

\* the str as a TLA+ string, for the f-strings
RECURSIVE Str(_)
Str(text) == IF Len(text) = 0 THEN "" ELSE text[1] \o Str(Tail(text))

\* Check 1
UnrecognizedLaw(governing_law, governing_law_upper) ==
    IF ~_is_valid_jurisdiction(governing_law_upper)
    THEN <<"Unrecognized governing law jurisdiction: '" \o Str(governing_law) \o "'">>
    ELSE <<>>

\* Check 2: party_legal_systems
LegalSystems(parties_upper) ==
    {"COMMON_LAW" : k \in {j \in 1..Len(parties_upper) :
                              parties_upper[j] \in COMMON_LAW_JURISDICTIONS}}
    \cup {"CIVIL_LAW" : k \in {j \in 1..Len(parties_upper) :
                                  /\ parties_upper[j] \notin COMMON_LAW_JURISDICTIONS
                                  /\ parties_upper[j] \in CIVIL_LAW_JURISDICTIONS}}

CrossBorderWarning(parties_upper) ==
    IF Cardinality(LegalSystems(parties_upper)) > 1
    THEN <<"Cross-border contract with parties from different legal systems "
           \o "(Common Law and Civil Law). Consider CISG applicability.">>
    ELSE <<>>

\* Check 3; forum is <<>> (None) or <<str>>, and an empty str is false
ForumMismatch(governing_law, governing_law_upper, forum, forum_upper) ==
    IF forum_upper # None /\ forum_upper[1] # <<>> /\ governing_law_upper # <<>>
    THEN IF _is_us_state(governing_law_upper) /\ ~_is_us_jurisdiction(forum_upper[1])
         THEN <<"Governing law '" \o Str(governing_law) \o "' (US state) but forum '"
                \o Str(forum[1]) \o "' is non-US. This may create enforcement issues.">>
         ELSE IF /\ _is_us_state(forum_upper[1])
                 /\ ~(\/ _is_us_jurisdiction(governing_law_upper)
                      \/ governing_law_upper \in {Spell["US"], Spell["NY"],
                                                  <<"C","A">>, Spell["DE"]})
         THEN <<"Forum '" \o Str(forum[1]) \o "' (US state) but governing law '"
                \o Str(governing_law) \o "' is non-US. Consider alignment for enforceability.">>
         ELSE <<>>
    ELSE <<>>

IsUsParty(c) == c = Spell["US"] \/ c \in US_STATES

\* Check 4
CisgWarning(parties_upper) ==
    IF /\ \E k \in 1..Len(parties_upper) : IsUsParty(parties_upper[k])
       /\ \E k \in 1..Len(parties_upper) : ~IsUsParty(parties_upper[k])
    THEN <<"International sale of goods may be subject to CISG unless expressly excluded.">>
    ELSE <<>>

\* Check 5
HomeWarning(governing_law, governing_law_upper, parties_upper) ==
    IF /\ Len(parties_upper) >= 2
       /\ \E k \in 1..Len(parties_upper) : parties_upper[k] = governing_law_upper
    THEN <<"Governing law '" \o Str(governing_law) \o "' favors one party's home "
           \o "jurisdiction. Consider a neutral jurisdiction for balance.">>
    ELSE <<>>

\* lines 171-185
JurisdictionResult(conflicts, warnings, governing_law, forum) ==
    [verified      |-> Len(conflicts) = 0,
     conflicts     |-> conflicts,
     warnings      |-> warnings,
     governing_law |-> governing_law,
     forum         |-> forum,
     message       |-> IF Len(conflicts) = 0
                       THEN "VERIFIED: Jurisdiction clause appears consistent."
                       ELSE "CONFLICTS DETECTED: " \o ToString(Len(conflicts))
                            \o " issue(s) found."]

\* lines 115-185 on the normalized inputs of lines 111-113
ChoiceOfLaw(governing_law, governing_law_upper, parties_upper, forum, forum_upper) ==
    JurisdictionResult(
        UnrecognizedLaw(governing_law, governing_law_upper)
            \o ForumMismatch(governing_law, governing_law_upper, forum, forum_upper),
        CrossBorderWarning(parties_upper) \o CisgWarning(parties_upper)
            \o HomeWarning(governing_law, governing_law_upper, parties_upper),
        governing_law, forum)

\* forum.upper().strip() if forum else None
NormalForum(forum) ==
    IF forum # None /\ forum[1] # <<>> THEN <<strip(upper(forum[1]))>> ELSE None

verify_choice_of_law(parties_countries, governing_law, forum) ==
    ChoiceOfLaw(governing_law, strip(upper(governing_law)),
                [k \in 1..Len(parties_countries) |-> strip(upper(parties_countries[k]))],
                forum, NormalForum(forum))

\* most parties of a contract handed to verify_choice_of_law
MaxParties == 2

Countries == {Spell["US"], Spell["us"] \o <<Sp>>, Spell["UK"], Spell["DE"], Spell["FR"]}

Jurisdictions ==
    {Spell["Delaware"], Spell["DE"], Spell["NY"], Spell["US"], Spell["FR"], Spell["London"]}

VerifyChoiceOfLaw ==
    /\ op = "idle"
    /\ \E n \in 1..MaxParties : \E parties_countries \in [1..n -> Countries] :
       \E governing_law \in Jurisdictions :
       \E forum \in {None} \cup {<<f>> : f \in Jurisdictions} :
         /\ request' = [parties_countries |-> parties_countries,
                        governing_law     |-> governing_law,
                        forum             |-> forum]
         /\ result' = verify_choice_of_law(parties_countries, governing_law, forum)
    /\ op' = "verify_choice_of_law"
    /\ UNCHANGED <<clauses, solver, s, checked, probe, earlier, others, mainVars>>
    /\ UNCHANGED <<llm_client, call_history, cf_decision>>

\* the caller of a JurisdictionGuard method is done with its result
Done ==
    /\ op = "verify_choice_of_law"
    /\ op' = "idle" /\ request' = <<>> /\ result' = NoResult
    /\ UNCHANGED <<clauses, solver, s, checked, probe, earlier, others, mainVars>>
    /\ UNCHANGED <<llm_client, call_history, cf_decision>>

NextGuards == VerifyDecisionFairness \/ NewFairnessGuard \/ VerifyChoiceOfLaw \/ Done

SpecGuards == Init /\ [][NextGuards]_vars

(* ------------------------- the action entrypoint ---------------------- *)
(* main() of action_entrypoint.py, one action per check.  What the other  *)
(* guards answer is an input of the step that calls them.                 *)

Modes == {"", "all", "deadline", "liability", "clause", "citation", "statute"}

\* the clause lists a clauses_json argument can hold
JsonClauseLists ==
    {<<>>,
     <<Grant("Seller", 30)>>,
     <<Grant("Seller", 30), MinimumTerm(90)>>,
     <<Grant("Seller", 30), <<"Buyer", "shall", "pay", "upon", "receipt">> >>}

\* a clauses_json argument by what json.loads makes of it: a list of strings,
\* a value that is no list (a number), or a JSONDecodeError
JsonDocuments ==
    {[loads |-> "list", value |-> cl] : cl \in JsonClauseLists}
    \cup {[loads |-> "number", value |-> <<>>],
          [loads |-> "JSONDecodeError", value |-> <<>>]}

\* the command line: mode; whether signing_date, term and claimed_deadline are
\* all given; contract_value, cap_percentage and claimed_cap as given ("" one
\* is missing, "numbers", "words" when float() cannot read one); clauses_json
\* (<<>> when missing or empty); whether citation is given
CommandLines ==
    [mode : Modes, deadline : BOOLEAN, liability : {"", "numbers", "words"},
     clauses_json : {<<>>} \cup {<<doc>> : doc \in JsonDocuments},
     citation : BOOLEAN]

\* lines 26-39: the arguments as main() reads them
ParseArgs(argv) == [argv EXCEPT !.mode = IF argv.mode = "" THEN "all" ELSE argv.mode]

\* results[name] = entry
Store(name, entry) == results' = [k \in DOMAIN results \cup {name} |->
                                     IF k = name THEN entry ELSE results[k]]

\* `if not result.verified: all_verified = False`, as every check does it
Unless(ok, verified_so_far) == IF ~ok THEN FALSE ELSE verified_so_far

\* fault: the clause check assigns its verdict to all_verified
ClauseVerdict_Assigned(report, verified_so_far) == report.consistent

\* lines 92-93
ClauseVerdict(report, verified_so_far) == Unless(report.consistent, verified_so_far)

\* an exception no handler of main() catches: the interpreter prints the
\* traceback and exits with status 1
Crash(exception) ==
    /\ pc' = "exited" /\ uncaught' = <<exception>> /\ exit_code' = <<1>>
    /\ UNCHANGED <<args, all_verified, results, messages>>

\* lines 25-43
MainStart ==
    /\ pc = "none"
    /\ \E argv \in CommandLines : args' = ParseArgs(argv)
    /\ results' = <<>> /\ all_verified' = TRUE /\ messages' = <<>>
    /\ pc' = "deadline"
    /\ UNCHANGED <<uncaught, exit_code>>
    /\ UNCHANGED <<op, clauses, result, solver, s, checked, probe, earlier, others, guardVars>>

\* lines 45-59; DeadlineGuard.verify catches what it raises
DeadlineCheck ==
    /\ pc = "deadline"
    /\ IF args.mode \in {"deadline", "all"} /\ args.deadline
       THEN \E verified \in BOOLEAN :
                /\ Store("deadline", [verified |-> verified])
                /\ all_verified' = Unless(verified, all_verified)
                /\ messages' = Append(messages, "deadline")
       ELSE UNCHANGED <<results, all_verified, messages>>
    /\ pc' = "liability"
    /\ UNCHANGED <<args, uncaught, exit_code>>
    /\ UNCHANGED <<op, clauses, result, solver, s, checked, probe, earlier, others, guardVars>>

\* lines 61-79; float() raises ValueError outside any try
LiabilityCheck ==
    /\ pc = "liability"
    /\ IF args.mode \in {"liability", "all"} /\ args.liability # ""
       THEN IF args.liability = "words"
            THEN Crash("ValueError")
            ELSE \E verified \in BOOLEAN :
                    /\ Store("liability", [verified |-> verified])
                    /\ all_verified' = Unless(verified, all_verified)
                    /\ messages' = Append(messages, "liability")
                    /\ pc' = "clause"
                    /\ UNCHANGED <<args, uncaught, exit_code>>
       ELSE /\ pc' = "clause"
            /\ UNCHANGED <<args, results, all_verified, messages, uncaught, exit_code>>
    /\ UNCHANGED <<op, clauses, result, solver, s, checked, probe, earlier, others, guardVars>>

\* lines 86-95 for the clause list json.loads returned, on a new ClauseGuard
ClauseChecked(report) ==
    /\ Store("clause", [consistent |-> report.consistent,
                        conflicts  |-> report.conflicts,
                        message    |-> report.message])
    /\ all_verified' = ClauseVerdict(report, all_verified)
    /\ messages' = Append(messages, report.message)
    /\ pc' = "citation"
    /\ UNCHANGED <<args, uncaught, exit_code>>

\* lines 81-98; only JSONDecodeError is caught: len() of a number raises
\* TypeError in check_consistency
ClauseCheck ==
    /\ pc = "clause"
    /\ IF args.mode \in {"clause", "all"} /\ args.clauses_json # <<>>
       THEN CASE args.clauses_json[1].loads = "list" ->
                     ClauseChecked(check_consistency(args.clauses_json[1].value))
              [] args.clauses_json[1].loads = "number" ->
                     Crash("TypeError")
              [] args.clauses_json[1].loads = "JSONDecodeError" ->
                     /\ Store("clause", [error |-> "Invalid JSON"])
                     /\ all_verified' = FALSE
                     /\ pc' = "citation"
                     /\ UNCHANGED <<args, messages, uncaught, exit_code>>
       ELSE /\ pc' = "citation"
            /\ UNCHANGED <<args, results, all_verified, messages, uncaught, exit_code>>
    /\ UNCHANGED <<op, clauses, result, solver, s, checked, probe, earlier, others, guardVars>>

\* lines 100-114
CitationCheck ==
    /\ pc = "citation"
    /\ IF args.mode \in {"citation", "all"} /\ args.citation
       THEN \E valid \in BOOLEAN :
                /\ Store("citation", [valid |-> valid])
                /\ all_verified' = Unless(valid, all_verified)
                /\ messages' = Append(messages, "citation")
       ELSE UNCHANGED <<results, all_verified, messages>>
    /\ pc' = "outputs"
    /\ UNCHANGED <<args, uncaught, exit_code>>
    /\ UNCHANGED <<op, clauses, result, solver, s, checked, probe, earlier, others, guardVars>>

\* lines 116-127: the three outputs are written, then sys.exit
SetOutputsAndExit ==
    /\ pc = "outputs"
    /\ exit_code' = IF ~all_verified THEN <<1>> ELSE <<0>>
    /\ pc' = "exited"
    /\ UNCHANGED <<args, all_verified, results, messages, uncaught>>
    /\ UNCHANGED <<op, clauses, result, solver, s, checked, probe, earlier, others, guardVars>>

NextMain ==
    \/ MainStart \/ DeadlineCheck \/ LiabilityCheck
    \/ ClauseCheck \/ CitationCheck \/ SetOutputsAndExit

SpecMain == Init /\ [][NextMain]_vars

(* ------------------------- one guard, many calls ---------------------- *)

\* the calls whose reports are followed across the life of the guards
CheckProbe ==
    [op |-> "check_consistency", clauses |-> <<Grant("Seller", 30), MinimumTerm(90)>>]

VerifyProbe ==
    [op |-> "verify_consistency",
     clauses |-> Contract(<<[text |-> CappedText, category |-> "LIABILITY", value |-> <<1>>],
                            [text |-> PenaltyText, category |-> "LIABILITY", value |-> <<2>>]>>)]

InitReuse ==
    /\ op = "idle" /\ clauses = <<>> /\ result = NoResult
    /\ solver = Solver
    /\ s = <<>> /\ checked = "none"
    /\ (probe = CheckProbe \/ probe = VerifyProbe)
    /\ earlier = <<>> /\ others = FALSE
    /\ NoGuardCall /\ NoMain

SpecReuse == InitReuse /\ [][Next]_vars

(* ------------------------------ properties ---------------------------- *)

CheckReturned == op = "check_consistency"

VerifyReturned == op = "verify_consistency"

\* C1: check_consistency on a clause list of length 0 or 1 returns
\* consistent = true and no conflicts, whatever the clause says.
C1_ShortListConsistent ==
    (CheckReturned /\ Len(clauses) < 2)
        => (result.consistent = TRUE /\ result.conflicts = <<>>)

C1_Witness ==
    /\ CheckReturned /\ clauses = <<MinimumTerm(90)>>
    /\ result.consistent = TRUE /\ result.conflicts = <<>>

\* C2: for [A, B] with A granting termination on N days notice and B setting a
\* minimum term of M days, N < M, check_consistency returns consistent = false
\* and exactly one conflict, for the pair (0, 1), citing N and M.
C2_NoticeBelowMinimumTerm ==
    \A n \in NoticeDays, m \in MinTermDays :
        (CheckReturned /\ n < m /\ clauses = <<Grant("Seller", n), MinimumTerm(m)>>)
            => /\ result.consistent = FALSE
               /\ result.conflicts =
                      << <<0, 1, "Termination notice (" \o ToString(n)
                                 \o " days) conflicts with minimum term ("
                                 \o ToString(m) \o " days)">> >>

Reasons(conflicts) == {conflicts[k][3] : k \in 1..Len(conflicts)}

\* C3: check_consistency([A, B]) and check_consistency([B, A]) give the same
\* set of conflict reasons.
C3_ReasonsOrderIndependent ==
    (CheckReturned /\ Len(clauses) = 2)
        => Reasons(result.conflicts)
               = Reasons(check_consistency(<<clauses[2], clauses[1]>>).conflicts)

\* C4: when the solver answers unknown, verify_consistency reports the
\* contract as consistent (verified = true), never as a contradiction.
C4_UnknownIsConsistent ==
    (VerifyReturned /\ checked = "unknown") => result.verified = TRUE

Cap(c) == [text |-> CappedText, category |-> "LIABILITY", value |-> <<c>>]

Penalty(p) == [text |-> PenaltyText, category |-> "LIABILITY", value |-> <<p>>]

\* C5: one CAP clause of value c and one PENALTY clause of value p, both
\* non-negative, are reported consistent exactly when p <= c.
C5_PenaltyWithinCap ==
    \A c \in 0..MaxValue, p \in 0..MaxValue :
        (/\ VerifyReturned
         /\ clauses \in {Contract(<<Cap(c), Penalty(p)>>), Contract(<<Penalty(p), Cap(c)>>)})
            => (result.verified <=> p <= c)

C5_Witness ==
    /\ VerifyReturned /\ clauses = Contract(<<Cap(1), Penalty(2)>>)
    /\ result.verified = FALSE

\* what a DURATION clause asks of the duration d, read from its qualifier (the
\* first of EXACT, MINIMUM, MAXIMUM whose keyword the text has)
DurationMeets(c, d) ==
    CASE c.text \in {ExactlyText, ExactlyMaximumText} -> d = c.value[1]
      [] c.text \in {AtLeastText, AtLeastMaximumText} -> d >= c.value[1]
      [] c.text = UpToText                            -> d <= c.value[1]
      [] OTHER                                        -> TRUE

AllDuration == clauses # <<>> /\ \A k \in 1..Len(clauses) : clauses[k].category = "DURATION"

\* C6: DURATION clauses are reported consistent exactly when some non-negative
\* integer duration meets every one of them (EXACT v: d = v, MINIMUM v: d >= v,
\* MAXIMUM v: d <= v).
C6_DurationSatisfiable ==
    (VerifyReturned /\ AllDuration)
        => (result.verified
                <=> \E d \in 0..(MaxValue + 1) :
                        \A k \in 1..Len(clauses) : DurationMeets(clauses[k], d))

C6_Witness ==
    /\ VerifyReturned /\ AllDuration /\ Len(clauses) = 2
    /\ clauses[1].text = AtLeastText /\ clauses[1].value = <<2>>
    /\ clauses[2].text = UpToText /\ clauses[2].value = <<1>>
    /\ result.verified = FALSE

\* C7: on reused guards a call's report depends on its own input only: the
\* call made again, whatever was called in between, reports what it reported
\* the first time.
C7_SameInputSameReport ==
    (op = probe.op /\ clauses = probe.clauses /\ earlier # <<>>)
        => result = earlier[1]

C7_Witness ==
    /\ op = probe.op /\ clauses = probe.clauses
    /\ earlier # <<>> /\ others /\ result = earlier[1]

Malformed(c) == c.category \notin {"DURATION", "LIABILITY", "OTHER"} \/ c.value = None

\* C8: verify_consistency given a clause with a missing or malformed category
\* or value reports a validation failure and returns no verdict.
C8_MalformedRejected ==
    (VerifyReturned /\ \E k \in 1..Len(clauses) : Malformed(clauses[k]))
        => "verified" \notin DOMAIN result

Unqualified(c) == c.category \in {"DURATION", "LIABILITY"} /\ c.text = PlainText

Without(seq, k) == [j \in 1..(Len(seq) - 1) |-> IF j < k THEN seq[j] ELSE seq[j + 1]]

\* C9: a DURATION or LIABILITY clause with no qualifier keyword adds no
\* constraint and does not fail the call: the verdict is that of the same
\* list without the clause.
C9_UnqualifiedDropped ==
    \A k \in 1..MaxContract :
        (VerifyReturned /\ k <= Len(clauses) /\ Unqualified(clauses[k]))
            => result = verify_consistency(Without(clauses, k))

C9_Witness ==
    /\ VerifyReturned /\ Len(clauses) = 2
    /\ Unqualified(clauses[1]) /\ clauses[1].category = "DURATION"
    /\ clauses[1].value = <<0>>
    /\ clauses[2].text = AtLeastText /\ clauses[2].value = <<1>>
    /\ result.verified = TRUE

RECURSIVE NumberedLines(_)
\* one line per conflict, in order, with 1-based clause numbers
NumberedLines(conflicts) ==
    IF conflicts = <<>> THEN ""
    ELSE "\n  - Clause " \o ToString(Head(conflicts)[1] + 1)
         \o " vs Clause " \o ToString(Head(conflicts)[2] + 1)
         \o ": " \o Head(conflicts)[3]
         \o NumberedLines(Tail(conflicts))

\* C10: check_consistency returns consistent = true exactly when the conflicts
\* list is empty; otherwise the message has one line per conflict, in conflicts
\* order, 'Clause {a+1} vs Clause {b+1}: {reason}'.
C10_ConsistentIffNoConflicts ==
    CheckReturned
        => /\ result.consistent <=> result.conflicts = <<>>
           /\ result.conflicts # <<>>
                  => result.message
                         = "WARNING: " \o ToString(Len(result.conflicts))
                           \o " potential conflict(s) detected:"
                           \o NumberedLines(result.conflicts)

C10_Witness ==
    /\ CheckReturned /\ Len(result.conflicts) = 2
    /\ result.conflicts[1][1] = 0 /\ result.conflicts[2][1] = 1
    /\ result.consistent = FALSE

\* C11: when the solver times out or runs out of resources, verify_consistency
\* catches it and returns a report (the UNKNOWN verdict); the caller never gets
\* an exception.
C11_ExhaustionIsCaught ==
    (VerifyReturned /\ checked \notin {"sat", "unsat"})
        => ("raised" \notin DOMAIN result /\ "verified" \in DOMAIN result)

\* whether the check that stored this entry succeeded
Succeeded(entry) ==
    CASE "error" \in DOMAIN entry      -> FALSE
      [] "verified" \in DOMAIN entry   -> entry.verified
      [] "consistent" \in DOMAIN entry -> entry.consistent
      [] "valid" \in DOMAIN entry      -> entry.valid

SomeCheckFailed == uncaught # <<>> \/ \E k \in DOMAIN results : ~Succeeded(results[k])

\* C12: the entrypoint exits with status 0 exactly when every check it ran
\* succeeded, and with a non-zero status when a check failed or the clause
\* JSON could not be parsed; once a check has failed, all_verified stays false
\* whatever the later checks answer.
C12_ExitStatus ==
    /\ (pc \notin {"none", "exited"} /\ SomeCheckFailed) => ~all_verified
    /\ pc = "exited" => /\ exit_code \in {<<0>>, <<1>>}
                        /\ exit_code = <<0>> <=> ~SomeCheckFailed

C12_Witness ==
    /\ pc = "exited" /\ exit_code = <<1>>
    /\ "clause" \in DOMAIN results /\ "deadline" \in DOMAIN results
    /\ results["clause"] = [consistent |-> TRUE, conflicts |-> <<>>,
                            message |-> "VERIFIED: All clauses are logically consistent."]
    /\ ~results["deadline"].verified

FairnessReturned == op = "verify_decision_fairness"

\* C13: when the client's generate returns None, verify_decision_fairness does
\* not raise: it returns verified = false with risk 'LLM_GENERATION_FAILED'.
C13_NoneFromLlmReported ==
    (FairnessReturned /\ cf_decision = <<None>>)
        => /\ "raised" \notin DOMAIN result
           /\ "risk" \in DOMAIN result
           /\ result.verified = FALSE /\ result.risk = "LLM_GENERATION_FAILED"

\* the value the items of the swap map give a word, if a key is the word in any
\* case: <<value>>, else <<>>
Mapped(swap, chars) ==
    IF \E a \in 1..Len(swap) : lower(swap[a][1]) = lower(chars)
    THEN <<swap[CHOOSE a \in 1..Len(swap) : lower(swap[a][1]) = lower(chars)][2]>>
    ELSE <<>>

\* a value in the case of the occurrence it replaces: upper, title or lower
CarryCase(chars, value) ==
    IF isupper(chars) THEN upper(value)
    ELSE IF istitle(chars) THEN capitalize(value)
    ELSE lower(value)

\* the prompt with each word that is a key replaced, once, by its value
Exchanged(words, swap) ==
    [k \in 1..Len(words) |->
        IF Mapped(swap, Spell[words[k]]) = <<>> THEN Spell[words[k]]
        ELSE CarryCase(Spell[words[k]], Mapped(swap, Spell[words[k]])[1])]

RECURSIVE Spaced(_)
Spaced(texts) ==
    IF Len(texts) = 0 THEN <<>>
    ELSE IF Len(texts) = 1 THEN texts[1]
    ELSE texts[1] \o <<Sp>> \o Spaced(Tail(texts))

\* C14: the prompt given to the client is the original prompt with every
\* whole-word occurrence of a key, in any case, replaced once by the key's
\* value in the case of the occurrence (upper, title or lower); what was put
\* in is not replaced again, so {he: she, she: he} exchanges the two words.
C14_SinglePassSwap ==
    \A n \in 1..MaxPrompt : \A words \in [1..n -> PromptWords] :
        (/\ FairnessReturned /\ call_history # <<>>
         /\ request.original_prompt = Text(words))
            => call_history[1] = Spaced(Exchanged(words, request.protected_attribute_swap))

\* C15: the client is called exactly once, with the counterfactual prompt, and
\* the result is verified = true, status 'FAIRNESS_VERIFIED', exactly when the
\* two decisions are equal after strip() and lower(); otherwise verified =
\* false, risk 'JUDICIAL_BIAS_DETECTED', and the variance holds both decisions
\* as they were given.
C15_DecisionsCompared ==
    (FairnessReturned /\ cf_decision # <<>> /\ cf_decision[1] # None)
        => /\ call_history
                  = <<Counterfactual(request.original_prompt,
                                     request.protected_attribute_swap).prompt>>
           /\ IF lower(strip(request.original_decision)) = lower(strip(cf_decision[1][1]))
              THEN result = [verified |-> TRUE, status |-> "FAIRNESS_VERIFIED"]
              ELSE /\ DOMAIN result = {"verified", "risk", "message", "variance"}
                   /\ result.verified = FALSE
                   /\ result.risk = "JUDICIAL_BIAS_DETECTED"
                   /\ result.variance = [original       |-> request.original_decision,
                                         counterfactual |-> cf_decision[1][1]]

C15_Witness ==
    /\ FairnessReturned
    /\ request.original_decision = <<Sp>> \o Spell["Approved"]
    /\ cf_decision = << <<Spell["APPROVED"]>> >>
    /\ request.original_prompt = Text(<<"she", "he">>)
    /\ call_history = <<Text(<<"he", "she">>)>>
    /\ result = [verified |-> TRUE, status |-> "FAIRNESS_VERIFIED"]

\* C16: on a guard made without a client, verify_decision_fairness raises
\* ValueError before it builds a prompt or calls a client.
C16_ClientRequired ==
    (FairnessReturned /\ llm_client = None)
        => (result = Raised("ValueError") /\ call_history = <<>> /\ cf_decision = <<>>)

C16_Witness ==
    /\ FairnessReturned /\ llm_client = None
    /\ request.protected_attribute_swap = <<>>
    /\ request.original_prompt = Text(<<"he">>)
    /\ result = Raised("ValueError")

StateNames == {Spell["Delaware"], Spell["DE"], Spell["NY"]}

\* C17: verify_choice_of_law for parties all from the US, with governing law and
\* forum naming the same US state (as 'Delaware' and 'Delaware'), returns
\* verified = true.
C17_SameStateVerified ==
    (/\ op = "verify_choice_of_law"
     /\ \A k \in 1..Len(request.parties_countries) :
            request.parties_countries[k] = Spell["US"]
     /\ request.governing_law \in StateNames
     /\ request.forum = <<request.governing_law>>)
        => result.verified = TRUE

(* C18 *)
PropositionFields ==
    {"text", "can_terminate", "termination_notice_days", "min_term_days",
     "is_exclusive", "is_prohibition", "is_permission", "parties"}

IsOptionalDays(opt) == opt = None \/ (Len(opt) = 1 /\ opt[1] \in Nat)

\* none of the words occurs in the clause
Lacks(clause, words) == \A k \in 1..Len(clause) : clause[k] \notin words

\* what extraction leaves in every field of the proposition of one clause
Extracted(prop, clause) ==
    /\ DOMAIN prop = PropositionFields
    /\ prop.text = clause
    /\ prop.can_terminate \in BOOLEAN
    /\ prop.is_exclusive \in BOOLEAN
    /\ prop.is_prohibition \in BOOLEAN
    /\ prop.is_permission \in BOOLEAN
    /\ IsOptionalDays(prop.termination_notice_days)
    /\ IsOptionalDays(prop.min_term_days)
    /\ prop.parties \subseteq PartyWords
    /\ Lacks(clause, {"terminate"}) => ~prop.can_terminate
    /\ Lacks(clause, {"notice"}) => prop.termination_notice_days = None
    /\ Lacks(clause, {"before"}) => prop.min_term_days = None
    /\ Lacks(clause, {"Only"}) => ~prop.is_exclusive
    /\ Lacks(clause, {"not", "Neither"}) => ~prop.is_prohibition
    /\ Lacks(clause, {"may"}) => ~prop.is_permission
    /\ Lacks(clause, {"Seller", "Buyer", "party"}) => prop.parties = {}

OnePerClause(propositions, cl) ==
    /\ Len(propositions) = Len(cl)
    /\ \A k \in 1..Len(cl) : Extracted(propositions[k], cl[k])

\* C18: for every list of clause texts, the empty text and a text that matches no
\* pattern included, _extract_propositions returns one proposition per clause, in
\* the order of the input, with all eight fields present and every attribute the
\* text does not mention left at None, false or the empty set.
C18_ExtractionTotal ==
    CheckReturned => OnePerClause(_extract_propositions(clauses), clauses)

C18_Witness ==
    /\ CheckReturned
    /\ clauses = << <<>>, <<"Buyer", "shall", "pay", "upon", "receipt">> >>
    /\ \A k \in 1..2 :
         /\ _extract_propositions(clauses)[k].termination_notice_days = None
         /\ _extract_propositions(clauses)[k].parties \subseteq {"buyer"}

(* C19 *)
\* the positions of the conflicts list that name the pair (i, j)
EntriesFor(conflicts, i, j) ==
    {k \in 1..Len(conflicts) : conflicts[k][1] = i /\ conflicts[k][2] = j}

\* the reason of the first rule in the order 1, 2, 3 that gives one, if any does
FirstFiring(r1, r2, r3) ==
    IF r1 # None THEN {r1[1]}
    ELSE IF r2 # None THEN {r2[1]}
    ELSE IF r3 # None THEN {r3[1]}
    ELSE {}

PairRecordedOnce(conflicts, i, j, prop1, prop2) ==
    /\ Cardinality(EntriesFor(conflicts, i, j)) <= 1
    /\ {conflicts[k][3] : k \in EntriesFor(conflicts, i, j)}
           = FirstFiring(_check_termination_conflict(prop1, prop2),
                         _check_permission_prohibition_conflict(prop1, prop2),
                         _check_exclusivity_conflict(prop1, prop2))

OnePerPair(conflicts, cl) ==
    /\ 2 * Len(conflicts) <= Len(cl) * (Len(cl) - 1)
    /\ \A k \in 1..Len(conflicts) :
         /\ conflicts[k][1] \in 0..(Len(cl) - 1)
         /\ conflicts[k][2] \in 0..(Len(cl) - 1)
         /\ conflicts[k][1] < conflicts[k][2]
    /\ \A i, j \in 0..(Len(cl) - 1) :
         i < j => PairRecordedOnce(conflicts, i, j, PropositionTable[cl[i + 1]],
                                   PropositionTable[cl[j + 1]])

\* C19: for n clauses the conflicts list has at most n(n-1)/2 entries, each names a
\* pair i < j, no pair is named twice, and the reason recorded for a pair is that of
\* the first of Rule 1, Rule 2, Rule 3 that fires for it; a pair for which no rule
\* fires is not recorded and a later rule that also fires adds nothing.
C19_OneConflictPerPair ==
    (CheckReturned /\ Len(clauses) >= 2) => OnePerPair(result.conflicts, clauses)

\* Rule 1 and Rule 2 both fire for the pair and only the reason of Rule 1 is kept
C19_Witness ==
    /\ CheckReturned
    /\ clauses = <<Grant("Seller", 30), MinimumTerm(90)>>
    /\ _check_termination_conflict(PropositionTable[clauses[1]],
                                   PropositionTable[clauses[2]]) # None
    /\ _check_permission_prohibition_conflict(PropositionTable[clauses[1]],
                                              PropositionTable[clauses[2]]) # None
    /\ result.conflicts = << <<0, 1, TerminationReason(30, 90)>> >>

(* C20 *)
\* granting terminates on an extracted notice N, other sets an extracted minimum
\* term M, and N < M
NoticeBelowTerm(granting, other) ==
    /\ granting.can_terminate
    /\ granting.termination_notice_days # None
    /\ other.min_term_days # None
    /\ granting.termination_notice_days[1] < other.min_term_days[1]

RuleOneExpected(prop1, prop2) ==
    NoticeBelowTerm(prop1, prop2) \/ NoticeBelowTerm(prop2, prop1)

\* the conflict recorded for the only pair of a two-clause list is Rule 1's
RuleOneReported(conflicts) ==
    /\ Len(conflicts) = 1
    /\ conflicts[1][3] \notin {PermissionReason, ExclusivityReason}

\* C20: for a pair of clauses Rule 1 fires exactly when one clause is a termination
\* clause with an extracted notice N, the other has an extracted minimum term M and
\* N < M, for every N >= 0 and M >= 0 (N = 0 included); it does not fire when
\* N >= M or when one of the two numbers was not extracted.
C20_RuleOneExactlyWhenNoticeBelowTerm ==
    (CheckReturned /\ Len(clauses) = 2)
        => /\ (_check_termination_conflict(PropositionTable[clauses[1]],
                                           PropositionTable[clauses[2]]) # None)
                <=> RuleOneExpected(PropositionTable[clauses[1]],
                                    PropositionTable[clauses[2]])
           /\ RuleOneReported(result.conflicts)
                <=> RuleOneExpected(PropositionTable[clauses[1]],
                                    PropositionTable[clauses[2]])

(* C21 *)
\* the word "terminate" occurs in the text of the clause
SaysTerminate(clause) == In(Spell["terminate"], Lowered(clause))

\* one of the two permits and the other prohibits
PermitsAndProhibits(prop1, prop2) ==
    \/ prop1.is_permission /\ prop2.is_prohibition
    \/ prop2.is_permission /\ prop1.is_prohibition

\* C21: Rule 2 gives a conflict for a pair only when one clause permits, the other
\* prohibits, and the word "terminate" occurs in the text of both clauses; a
\* permitting clause that speaks of termination only through "cancel",
\* "termination" or "end the agreement" does not make Rule 2 fire.
C21_TerminateInBothTexts ==
    (/\ CheckReturned /\ Len(clauses) = 2
     /\ _check_permission_prohibition_conflict(PropositionTable[clauses[1]],
                                               PropositionTable[clauses[2]]) # None)
        => /\ PermitsAndProhibits(PropositionTable[clauses[1]],
                                  PropositionTable[clauses[2]])
           /\ SaysTerminate(clauses[1])
           /\ SaysTerminate(clauses[2])

(* C22 *)
BothExclusiveSharingParty(prop1, prop2) ==
    /\ prop1.is_exclusive /\ prop2.is_exclusive
    /\ \E party \in prop1.parties : party \in prop2.parties

\* no earlier rule takes the pair
RulesOneAndTwoSilent(prop1, prop2) ==
    /\ _check_termination_conflict(prop1, prop2) = None
    /\ _check_permission_prohibition_conflict(prop1, prop2) = None

ExclusivityExact(conflicts, prop1, prop2) ==
    /\ (_check_exclusivity_conflict(prop1, prop2) # None)
          <=> BothExclusiveSharingParty(prop1, prop2)
    /\ RulesOneAndTwoSilent(prop1, prop2)
          => IF BothExclusiveSharingParty(prop1, prop2)
             THEN conflicts = << <<0, 1, ExclusivityReason>> >>
             ELSE conflicts = <<>>

\* C22: Rule 3 gives a conflict for a pair exactly when both clauses are marked
\* exclusive and their extracted party sets share a member; two exclusive clauses
\* whose party sets are disjoint or empty do not conflict under Rule 3.
C22_ExclusivityNeedsSharedParty ==
    (CheckReturned /\ Len(clauses) = 2)
        => ExclusivityExact(result.conflicts, PropositionTable[clauses[1]],
                            PropositionTable[clauses[2]])

\* two exclusive clauses, one for the seller and one for the buyer: no conflict
C22_Witness ==
    /\ CheckReturned
    /\ clauses = << <<"Only", "Seller", "shall", "pay", "upon", "receipt">>,
                    <<"Only", "Buyer", "shall", "pay", "upon", "receipt">> >>
    /\ PropositionTable[clauses[1]].is_exclusive
    /\ PropositionTable[clauses[2]].is_exclusive
    /\ PropositionTable[clauses[1]].parties = {"seller"}
    /\ PropositionTable[clauses[2]].parties = {"buyer"}
    /\ result.conflicts = <<>>

(* C23 *)
\* (a, b) comes before (c, d) in the order of the two loops
PairBefore(a, b, c, d) == a < c \/ (a = c /\ b < d)

\* what check_consistency reports for the two clauses alone
ReasonAlone(clause1, clause2) ==
    {check_consistency(<<clause1, clause2>>).conflicts[k][3] :
        k \in 1..Len(check_consistency(<<clause1, clause2>>).conflicts)}

InDiscoveryOrder(conflicts, cl) ==
    /\ \A k \in 1..Len(conflicts) :
         /\ Len(conflicts[k]) = 3
         /\ 0 <= conflicts[k][1]
         /\ conflicts[k][1] < conflicts[k][2]
         /\ conflicts[k][2] < Len(cl)
         /\ conflicts[k][3] \in ReasonAlone(cl[conflicts[k][1] + 1],
                                            cl[conflicts[k][2] + 1])
    /\ \A k \in 1..(Len(conflicts) - 1) :
         PairBefore(conflicts[k][1], conflicts[k][2],
                    conflicts[k + 1][1], conflicts[k + 1][2])

\* C23: every conflict check_consistency returns is a triple (a, b, reason) with
\* 0 <= a < b < number of clauses, a and b counting the clauses in the order they
\* were submitted, and the list is strictly ascending by (a, b).
C23_ConflictsIndexedInOrder ==
    CheckReturned => InDiscoveryOrder(result.conflicts, clauses)

C23_Witness ==
    /\ CheckReturned
    /\ clauses = <<Grant("Seller", 30), MinimumTerm(90), MinimumTerm(20)>>
    /\ Len(result.conflicts) = 3
    /\ <<result.conflicts[1][1], result.conflicts[1][2]>> = <<0, 1>>
    /\ <<result.conflicts[2][1], result.conflicts[2][2]>> = <<0, 2>>
    /\ <<result.conflicts[3][1], result.conflicts[3][2]>> = <<1, 2>>

(* C24 *)
Words(text) == {text[k] : k \in 1..Len(text)}

\* the qualifier of a DURATION clause: EXACT before MINIMUM before MAXIMUM
DurationQualifier(text) ==
    IF "exactly" \in Words(text) THEN "=="
    ELSE IF "Minimum" \in Words(text) \/ "least" \in Words(text) THEN ">="
    ELSE IF "Maximum" \in Words(text) \/ "up" \in Words(text) THEN "<="
    ELSE "none"

\* the qualifier of a LIABILITY clause: CAP before PENALTY
LiabilityQualifier(text) ==
    IF "capped" \in Words(text) THEN "<="
    ELSE IF "penalty" \in Words(text) THEN ">="
    ELSE "none"

\* the one constraint the clause may contribute, on the variable of its category
Contribution(c) ==
    IF c.category = "DURATION" /\ DurationQualifier(c.text) # "none"
    THEN <<Assertion("contract_duration_months", DurationQualifier(c.text), c.value[1])>>
    ELSE IF c.category = "LIABILITY" /\ LiabilityQualifier(c.text) # "none"
    THEN <<Assertion("max_liability_usd", LiabilityQualifier(c.text), c.value[1])>>
    ELSE <<>>

\* the assertions of the solver after the three on the variables' signs
ClauseAssertions(assertions) == SubSeq(assertions, 4, Len(assertions))

\* the assertions on one variable, in the order they were added
On(var, assertions) == SelectSeq(assertions, LAMBDA a : a.var = var)

OfCategory(category, cl) == SelectSeq(cl, LAMBDA c : c.category = category)

OneConstraintPerClause(assertions, cl) ==
    /\ \A k \in 1..Len(assertions) : assertions[k].var \in Vars
    /\ On("notice_period_days", ClauseAssertions(assertions)) = <<>>
    /\ On("contract_duration_months", ClauseAssertions(assertions))
          = Concat([k \in 1..Len(OfCategory("DURATION", cl)) |->
                       Contribution(OfCategory("DURATION", cl)[k])])
    /\ On("max_liability_usd", ClauseAssertions(assertions))
          = Concat([k \in 1..Len(OfCategory("LIABILITY", cl)) |->
                       Contribution(OfCategory("LIABILITY", cl)[k])])
    /\ Len(ClauseAssertions(assertions))
          <= Len(OfCategory("DURATION", cl)) + Len(OfCategory("LIABILITY", cl))

\* C24: in verify_consistency a clause contributes at most one constraint, on the
\* variable of its category only (DURATION: contract_duration_months, LIABILITY:
\* max_liability_usd), with the qualifier of the first keyword match in the order
\* EXACT, MINIMUM, MAXIMUM (duration) and CAP, PENALTY (liability); every
\* assertion is on one of the three fixed variables.
C24_OneConstraintPerClause ==
    (VerifyReturned /\ checked \in {"sat", "unsat"})
        => OneConstraintPerClause(s, clauses)

\* a duration clause with the keywords of EXACT and of MAXIMUM is compiled as EXACT
C24_Witness ==
    /\ VerifyReturned
    /\ Len(clauses) = 1
    /\ clauses[1].text = ExactlyMaximumText /\ clauses[1].category = "DURATION"
    /\ ClauseAssertions(s) = <<Assertion("contract_duration_months", "==", 1)>>

(* C25 *)
\* the first assertions of the solver bound each of the three variables from 0
BoundedFirst(assertions) ==
    /\ Len(assertions) >= 3
    /\ \A var \in Vars : \E k \in 1..3 : assertions[k] = Assertion(var, ">=", 0)

\* the clause can only be met by a negative duration or liability
NeedsNegative(c) ==
    /\ c.value # None
    /\ c.value[1] < 0
    /\ \/ c.category = "DURATION" /\ c.text \in {ExactlyText, UpToText}
       \/ c.category = "LIABILITY" /\ c.text = CappedText

\* C25: every verify_consistency call asserts each of the three variables >= 0
\* before any clause constraint, so the empty clause list is consistent and a
\* list with a clause that only a negative duration or liability can meet (a
\* MAXIMUM, EXACT or CAP of negative value) is not.
C25_NothingNegative ==
    (VerifyReturned /\ checked \in {"sat", "unsat"})
        => /\ BoundedFirst(s)
           /\ clauses = <<>> => result.verified = TRUE
           /\ (\E k \in 1..Len(clauses) : NeedsNegative(clauses[k]))
                 => result.verified = FALSE

C25_Witness ==
    /\ VerifyReturned
    /\ clauses = Contract(<<Cap(-1)>>)
    /\ BoundedFirst(s)
    /\ result.verified = FALSE

(* C26 *)
NumberWords == {ToString(n) : n \in NoticeDays \cup MinTermDays}

NumberOf(word) == CHOOSE n \in NoticeDays \cup MinTermDays : ToString(n) = word

\* the positions of a number in the form <n> days <anchor>
NumberBeforeAnchor(words, anchor) ==
    {k \in 1..(Len(words) - 2) :
        words[k] \in NumberWords /\ words[k + 1] = "days" /\ words[k + 2] = anchor}

\* the positions of a number in the form <anchor> <n> days
NumberAfterAnchor(words, anchor) ==
    {k \in 2..(Len(words) - 1) :
        words[k - 1] = anchor /\ words[k] \in NumberWords /\ words[k + 1] = "days"}

DaysNear(words, anchor) ==
    IF NumberBeforeAnchor(words, anchor) # {}
    THEN <<NumberOf(words[Min(NumberBeforeAnchor(words, anchor))])>>
    ELSE IF NumberAfterAnchor(words, anchor) # {}
    THEN <<NumberOf(words[Min(NumberAfterAnchor(words, anchor))])>>
    ELSE None

ExtractedDays(prop, words) ==
    /\ prop.termination_notice_days = DaysNear(words, "notice")
    /\ prop.min_term_days = DaysNear(words, "before")
    /\ IsOptionalDays(prop.termination_notice_days)
    /\ IsOptionalDays(prop.min_term_days)

\* C26: _extract_days returns the number of the form "<n> days <anchor>" when the
\* clause has one, else the number of the form "<anchor> <n> days" when it has
\* one, else None (so also when the anchor word is absent); a clause with both
\* forms for the same anchor gives the number before the anchor, and a number
\* returned is a non-negative integer.
C26_NumberBeforeAnchorFirst ==
    CheckReturned
        => \A k \in 1..Len(clauses) :
               ExtractedDays(PropositionTable[clauses[k]], clauses[k])

\* "... with 30 days notice 10 days" has both forms for "notice": 30 is returned
C26_Witness ==
    /\ CheckReturned
    /\ clauses[1] = Grant("Seller", 30) \o <<"10", "days">>
    /\ NumberBeforeAnchor(clauses[1], "notice") # {}
    /\ NumberAfterAnchor(clauses[1], "notice") # {}
    /\ PropositionTable[clauses[1]].termination_notice_days = <<30>>

(* C27 *)
\* the nine party words of the specification
PartyVocabulary ==
    {"seller", "buyer", "vendor", "customer", "licensee", "licensor",
     "party", "company", "contractor"}

\* C27: the party set extracted from a clause is a subset of the vocabulary
\* {seller, buyer, vendor, customer, licensee, licensor, party, company,
\* contractor}, and two exclusive clauses collide under Rule 3 only over a word of
\* that vocabulary.
C27_PartiesWithinVocabulary ==
    CheckReturned
        => /\ \A k \in 1..Len(clauses) :
                 PropositionTable[clauses[k]].parties \subseteq PartyVocabulary
           /\ \A k \in 1..Len(result.conflicts) :
                 result.conflicts[k][3] = ExclusivityReason
                     => \E party \in PartyVocabulary :
                            /\ party \in PropositionTable[
                                   clauses[result.conflicts[k][1] + 1]].parties
                            /\ party \in PropositionTable[
                                   clauses[result.conflicts[k][2] + 1]].parties

(* C28 *)
\* the clause forbids ("may not", "shall not", "cannot") and grants nothing: it
\* has no "may" that is not followed by "not"
OnlyProhibits(words) ==
    /\ \E k \in 1..Len(words) :
          \/ words[k] = "cannot"
          \/ words[k] \in {"may", "shall"} /\ k < Len(words) /\ words[k + 1] = "not"
    /\ \A k \in 1..Len(words) :
          words[k] = "may" => (k < Len(words) /\ words[k + 1] = "not")
    /\ "terminate" \in Words(words)

\* C28: check_consistency reports no permission-vs-prohibition conflict between
\* two clauses that both only prohibit termination, whichever of "may not",
\* "shall not", "cannot" each of them uses.
C28_TwoProhibitionsDoNotConflict ==
    (/\ CheckReturned /\ Len(clauses) = 2
     /\ OnlyProhibits(clauses[1]) /\ OnlyProhibits(clauses[2]))
        => \A k \in 1..Len(result.conflicts) : result.conflicts[k][3] # PermissionReason

(* C29 *)
Constraining(cl) == SelectSeq(cl, LAMBDA c : c.category \in {"DURATION", "LIABILITY"})

\* what a LIABILITY clause asks of the liability l: CAP before PENALTY
LiabilityMeets(c, l) ==
    CASE LiabilityQualifier(c.text) = "<=" -> l <= c.value[1]
      [] LiabilityQualifier(c.text) = ">=" -> l >= c.value[1]
      [] OTHER                             -> TRUE

\* some non-negative duration meets every DURATION clause of the list
DurationSatisfiable(cl) ==
    \E d \in 0..(MaxValue + 1) :
        \A k \in 1..Len(cl) : cl[k].category = "DURATION" => DurationMeets(cl[k], d)

\* some non-negative liability meets every LIABILITY clause of the list
LiabilitySatisfiable(cl) ==
    \E l \in 0..(MaxValue + 1) :
        \A k \in 1..Len(cl) : cl[k].category = "LIABILITY" => LiabilityMeets(cl[k], l)

Reversed(cl) == [k \in 1..Len(cl) |-> cl[Len(cl) + 1 - k]]

VerdictSeparable(verified, cl) ==
    /\ verified <=> (DurationSatisfiable(cl) /\ LiabilitySatisfiable(cl))
    /\ verified = verify_consistency(Reversed(Constraining(cl))).verified

\* C29: in verify_consistency a clause whose category is neither DURATION nor
\* LIABILITY does not change the verdict, and the verdict is consistent exactly
\* when some non-negative duration meets the DURATION clauses and some
\* non-negative liability meets the LIABILITY clauses, each taken alone, in
\* whatever order the clauses are listed.
C29_VerdictSeparable ==
    (VerifyReturned /\ checked \in {"sat", "unsat"})
        => VerdictSeparable(result.verified, clauses)

\* an OTHER clause that says "exactly 1" beside a DURATION clause of exactly 0
C29_Witness ==
    /\ VerifyReturned
    /\ Len(clauses) = 2
    /\ clauses[1].category = "OTHER" /\ clauses[1].text = ExactlyText
    /\ clauses[1].value = <<1>>
    /\ clauses[2].category = "DURATION" /\ clauses[2].text = ExactlyText
    /\ clauses[2].value = <<0>>
    /\ result.verified = TRUE

(* C30 *)
UsingZ3Returned == op = "verify_using_z3"

====
